---- MODULE Spec2Model ----
(***************************************************************************)
(* Model of the ipo_ml_screener scoring engine: compute_hard_gates and     *)
(* compute_total_score (scoring.py), compute_momentum_flags (momentum.py)  *)
(* and compute_financial_metrics (sec.py) as refresh (cli.py) chains them. *)
(*                                                                         *)
(* Python floats are modelled as exact rationals <<n, d>> with d > 0 in    *)
(* lowest terms; None is the empty tuple.  Rounding of IEEE doubles is not *)
(* modelled.  Dictionaries are functions from key strings to values.       *)
(***************************************************************************)
EXTENDS Integers, Sequences, FiniteSets, TLC

VARIABLES pc, price_summary, sec_metrics, thresholds, hard,
          hist, cfg, momentum, weights, score, facts

\* ohlcv, quote, summaries: a price history, the answers of the quote service
\* and the results of successive compute_price_summary calls;
\* out_file, run: the scores file and the latest refresh run;
\* clock, rl_last, thread, starts: wall clock, _rl._last, the threads inside
\* _sec_get_json and the start times of the requests issued
VARIABLES ohlcv, quote, summaries, out_file, run, ipos, listing, args,
          clock, rl_last, thread, starts, cik_cache, endpoint, lookups

scoring == <<pc, price_summary, sec_metrics, thresholds, hard,
             hist, cfg, momentum, weights, score, facts>>

market == <<ohlcv, quote, summaries>>

pipeline == <<out_file, run, ipos, listing, args>>

limiter == <<clock, rl_last, thread, starts>>

cikmap == <<cik_cache, endpoint, lookups>>

vars == <<pc, price_summary, sec_metrics, thresholds, hard,
          hist, cfg, momentum, weights, score, facts,
          ohlcv, quote, summaries, out_file, run, ipos, listing, args,
          clock, rl_last, thread, starts, cik_cache, endpoint, lookups>>

----------------------------------------------------------------------------
(* Exact arithmetic standing for Python float arithmetic.                  *)

None == <<>>

Abs(i) == IF i < 0 THEN -i ELSE i

RECURSIVE GCD(_, _)
GCD(a, b) == IF b = 0 THEN a ELSE GCD(b, a % b)

Norm(n, d) ==
    LET s == IF d < 0 THEN -1 ELSE 1
        g == GCD(Abs(n), Abs(d))
    IN  <<(s * n) \div g, (s * d) \div g>>

R(i) == <<i, 1>>
Frac(n, d) == Norm(n, d)

RAdd(a, b) == Norm(a[1] * b[2] + b[1] * a[2], a[2] * b[2])
RSub(a, b) == Norm(a[1] * b[2] - b[1] * a[2], a[2] * b[2])
RMul(a, b) == Norm(a[1] * b[1], a[2] * b[2])
RDiv(a, b) == Norm(a[1] * b[2], a[2] * b[1])
RNeg(a) == <<-a[1], a[2]>>
RLt(a, b) == a[1] * b[2] < b[1] * a[2]
RLe(a, b) == a[1] * b[2] <= b[1] * a[2]
RGe(a, b) == RLe(b, a)
RGt(a, b) == RLt(b, a)
\* Python's max(a, b) / min(a, b): the first argument unless the second beats it
RMax(a, b) == IF RGt(b, a) THEN b ELSE a
RMin(a, b) == IF RLt(b, a) THEN b ELSE a

----------------------------------------------------------------------------
(* Raw Python values as they arrive in dictionaries: [kind, v].            *)
(* kind: "none" None, "nan" float('nan'), "inf" +/-inf, "text" a value     *)
(* float() rejects, "bool" True/False (v = 1 or 0), "num" a finite number. *)

Raw(k, v) == [kind |-> k, v |-> v]
RawNone == Raw("none", R(0))
RawNaN == Raw("nan", R(0))
RawInf == Raw("inf", R(0))
RawText == Raw("text", R(0))
RawBool(b) == Raw("bool", IF b THEN R(1) ELSE R(0))
Num(r) == Raw("num", r)
\* wrap an optional float (None or rational) as a raw dictionary value
Wrap(x) == IF x = None THEN RawNone ELSE Num(x)

\* dict.get(key) with default None
DictGet(d, key) == IF key \in DOMAIN d THEN d[key] ELSE RawNone
\* dict.get(key, default) on a dictionary of numbers
GetOr(d, key, default) == IF key \in DOMAIN d THEN d[key] ELSE default

_to_float(x) ==
    CASE x.kind = "none" -> None
      [] x.kind = "bool" -> x.v
      [] x.kind = "nan" -> None
      [] x.kind = "inf" -> None
      [] x.kind = "text" -> None
      [] OTHER -> x.v

\* obj is None (modelled as the empty dictionary), a dataclass or a dict
_get(obj, key) == IF DOMAIN obj = {} THEN RawNone ELSE DictGet(obj, key)

----------------------------------------------------------------------------
(* scoring.compute_hard_gates                                              *)

DefaultMinDollarVol == 3000000
DefaultMinMarketCap == 200000000
DefaultMinPrice == 3
DefaultMinGrossMargin == Frac(20, 100)
DefaultMinRunwayMonths == 12

SoftKeys == {"cash_and_equivalents", "operating_cash_flow", "free_cash_flow",
             "gross_margin", "stock_based_compensation"}

Count(flags) == Cardinality({i \in DOMAIN flags : flags[i]})

\* sufficiency granted from a single fundamental
data_sufficient_one(cash, cfo, fcf, gross_margin, sbc) ==
    Count(<<cash # None, cfo # None, fcf # None, gross_margin # None, sbc # None>>) >= 1

data_sufficient(cash, cfo, fcf, gross_margin, sbc) ==
    Count(<<cash # None, cfo # None, fcf # None, gross_margin # None, sbc # None>>) >= 2

\* operating cash flow preferred over free cash flow
Burn_cfofirst(fcf, cfo) ==
    IF cfo # None /\ RLt(cfo, R(0)) THEN RNeg(cfo)
    ELSE IF fcf # None /\ RLt(fcf, R(0)) THEN RNeg(fcf)
    ELSE None

Burn(fcf, cfo) ==
    IF fcf # None /\ RLt(fcf, R(0)) THEN RNeg(fcf)
    ELSE IF cfo # None /\ RLt(cfo, R(0)) THEN RNeg(cfo)
    ELSE None

RunwayMonths(cash, burn) ==
    IF cash # None /\ burn # None /\ RGt(burn, R(0))
    THEN RMul(R(12), RDiv(cash, burn))
    ELSE None

\* a strict gate that passes when its value is missing
StrictGate_open(value, threshold) == value = None \/ RGe(value, threshold)

StrictGate(value, threshold) == value # None /\ RGe(value, threshold)

\* the runway gate left out of the final decision
PassHardGates_norunway(gl, gm, gp, ggm, gr) == gl /\ gm /\ gp /\ ggm

PassHardGates(gl, gm, gp, ggm, gr) == gl /\ gm /\ gp /\ ggm /\ gr

compute_hard_gates(ps, sm, days, th) ==
    LET min_dollar_vol == GetOr(th, "min_avg_dollar_vol_20d", R(DefaultMinDollarVol))
        min_market_cap == GetOr(th, "min_market_cap", R(DefaultMinMarketCap))
        min_price == GetOr(th, "min_price", R(DefaultMinPrice))
        avg_dollar_vol_20d == _to_float(_get(ps, "avg_dollar_vol_20d"))
        market_cap == _to_float(_get(ps, "market_cap"))
        last_close == _to_float(_get(ps, "last_close"))
        gate_liquidity == StrictGate(avg_dollar_vol_20d, min_dollar_vol)
        gate_market_cap == StrictGate(market_cap, min_market_cap)
        gate_price == StrictGate(last_close, min_price)
        cash == _to_float(DictGet(sm, "cash_and_equivalents"))
        cfo == _to_float(DictGet(sm, "operating_cash_flow"))
        fcf == _to_float(DictGet(sm, "free_cash_flow"))
        gross_margin == _to_float(DictGet(sm, "gross_margin"))
        sbc == _to_float(DictGet(sm, "stock_based_compensation"))
        sufficient == data_sufficient(cash, cfo, fcf, gross_margin, sbc)
        gate_gross_margin ==
            IF sufficient /\ gross_margin # None
            THEN RGe(gross_margin, GetOr(th, "min_gross_margin", DefaultMinGrossMargin))
            ELSE TRUE
        burn == Burn(fcf, cfo)
        runway_months == RunwayMonths(cash, burn)
        gate_runway ==
            IF runway_months # None /\ sufficient
            THEN RGe(runway_months, GetOr(th, "min_runway_months", R(DefaultMinRunwayMonths)))
            ELSE TRUE
    IN  [pass_hard_gates |-> PassHardGates(gate_liquidity, gate_market_cap, gate_price,
                                           gate_gross_margin, gate_runway),
         data_sufficient_fundamentals |-> sufficient,
         avg_dollar_vol_20d |-> avg_dollar_vol_20d,
         market_cap |-> market_cap,
         last_close |-> last_close,
         cash_and_equivalents |-> cash,
         operating_cash_flow |-> cfo,
         free_cash_flow |-> fcf,
         gross_margin |-> gross_margin,
         stock_based_compensation |-> sbc,
         runway_months |-> runway_months,
         gate_liquidity |-> gate_liquidity,
         gate_market_cap |-> gate_market_cap,
         gate_price |-> gate_price,
         gate_gross_margin |-> gate_gross_margin,
         gate_runway |-> gate_runway,
         days_since_ipo |-> days]

----------------------------------------------------------------------------
(* scoring.compute_total_score                                             *)

DefaultWLiquidity == 40
DefaultWMomentum == 35
DefaultWFundamentals == 25

mom_conditions == <<"cond_ma_stack", "cond_slope_up", "cond_ret", "cond_drawdown", "cond_dev">>

\* bool(d.get(key)) for a dictionary of flags
Truthy(d, key) == key \in DOMAIN d /\ d[key] = TRUE

LiqPoints(hg) ==
    RAdd(RAdd(IF Truthy(hg, "gate_liquidity") THEN Frac(5, 10) ELSE R(0),
              IF Truthy(hg, "gate_market_cap") THEN Frac(3, 10) ELSE R(0)),
         IF Truthy(hg, "gate_price") THEN Frac(2, 10) ELSE R(0))

\* only the conditions that hold are counted
MomTotal_hits(mom) == Cardinality({i \in DOMAIN mom_conditions : Truthy(mom, mom_conditions[i])})

MomTotal(mom) == Cardinality({i \in DOMAIN mom_conditions : mom_conditions[i] \in DOMAIN mom})

MomHits(mom) == Cardinality({i \in DOMAIN mom_conditions : Truthy(mom, mom_conditions[i])})

ScoreMom(mom, w_mom) ==
    IF MomTotal(mom) = 0 THEN R(0)
    ELSE RMul(w_mom, Frac(MomHits(mom), MomTotal(mom)))

\* a signal capped at 1 but not floored at 0
Signal_nofloor(x, best) == RMin(R(1), RDiv(x, best))

\* normalise a signal to 0..1 with cap
Signal(x, best) == RMax(R(0), RMin(R(1), RDiv(x, best)))

ScoreFund(hg, sm, w_fund) ==
    LET data_ok == Truthy(hg, "data_sufficient_fundamentals")
        gm == _to_float(DictGet(sm, "gross_margin"))
        runway == IF "runway_months" \in DOMAIN hg
                  THEN _to_float(Wrap(hg["runway_months"])) ELSE None
        gm_part == IF gm # None THEN Signal(gm, Frac(60, 100)) ELSE R(0)
        rw_part == IF runway # None THEN Signal(runway, R(24)) ELSE R(0)
        fund_score_raw == RAdd(gm_part, rw_part)
        fund_parts == (IF gm # None THEN 1 ELSE 0) + (IF runway # None THEN 1 ELSE 0)
    IN  IF fund_parts = 0
        THEN RMul(w_fund, IF ~data_ok THEN Frac(25, 100) ELSE R(0))
        ELSE RMul(w_fund, RDiv(fund_score_raw, R(fund_parts)))

\* the total floored at 0 but not capped at 100
ScoreTotal_uncapped(score_liq, score_mom, score_fund) ==
    RMax(R(0), RAdd(RAdd(score_liq, score_mom), score_fund))

ScoreTotal(score_liq, score_mom, score_fund) ==
    RMax(R(0), RMin(R(100), RAdd(RAdd(score_liq, score_mom), score_fund)))

compute_total_score(hg, mom, ps, sm, w) ==
    LET w_liq == GetOr(w, "liquidity", R(DefaultWLiquidity))
        w_mom == GetOr(w, "momentum", R(DefaultWMomentum))
        w_fund == GetOr(w, "fundamentals", R(DefaultWFundamentals))
        score_liq == RMul(w_liq, LiqPoints(hg))
        score_mom == ScoreMom(mom, w_mom)
        score_fund == ScoreFund(hg, sm, w_fund)
    IN  [score_total |-> ScoreTotal(score_liq, score_mom, score_fund),
         score_components |-> [liquidity |-> score_liq,
                               momentum |-> score_mom,
                               fundamentals |-> score_fund]]

----------------------------------------------------------------------------
(* sec.compute_financial_metrics.  facts carries, per XBRL tag, the value  *)
(* latest_value extracts (None when the tag is absent) and the year-on-    *)
(* year growth derived from the revenue series; NoFacts is a failed or     *)
(* empty company-facts fetch.                                              *)

NoFacts == [k \in {} |-> None]

MetricKeys == {"cash", "revenue", "gross_profit", "gross_margin", "cfo", "capex",
               "fcf", "sbc", "sbc_to_revenue", "yoy_revenue_growth", "cash_runway_months"}

compute_financial_metrics(f) ==
    IF DOMAIN f = {} THEN [k \in {} |-> RawNone]
    ELSE
    LET cash == f.cash
        rev == f.rev
        gp == f.gp
        cfo == f.cfo
        capex == f.capex
        sbc == f.sbc
        fcf == IF cfo # None /\ capex # None THEN RSub(cfo, capex) ELSE None
        gross_margin == IF gp # None /\ rev # None /\ rev # R(0) THEN RDiv(gp, rev) ELSE None
        sbc_to_rev == IF sbc # None /\ rev # None /\ rev # R(0) THEN RDiv(sbc, rev) ELSE None
        monthly_burn == IF cfo # None THEN RDiv(R(Abs(cfo[1])), R(3 * cfo[2])) ELSE None
        runway_months ==
            IF cash # None /\ cfo # None /\ RLt(cfo, R(0)) /\ RGt(monthly_burn, R(0))
            THEN RDiv(cash, monthly_burn) ELSE None
        out == [cash |-> cash, revenue |-> rev, gross_profit |-> gp,
                gross_margin |-> gross_margin, cfo |-> cfo, capex |-> capex,
                fcf |-> fcf, sbc |-> sbc, sbc_to_revenue |-> sbc_to_rev,
                yoy_revenue_growth |-> f.yoy, cash_runway_months |-> runway_months]
    IN  [k \in MetricKeys |-> Wrap(out[k])]

----------------------------------------------------------------------------
(* momentum.compute_momentum_flags.  A price history is None or a frame    *)
(* [kind, has_close, rows]: rows holds the Close column after              *)
(* pd.to_numeric(errors="coerce"), one entry per row, None standing for    *)
(* NaN; a frame without a Close column still has its rows.                 *)

NoHist == [kind |-> "none", has_close |-> FALSE, rows |-> <<>>]
Frame(has_close, rows) == [kind |-> "frame", has_close |-> has_close, rows |-> rows]

\* Series.dropna()
DropNa(s) == SelectSeq(s, LAMBDA x : x # None)

\* the first n entries instead of the last n
Tail_n_head(s, n) == IF n >= Len(s) THEN s ELSE SubSeq(s, 1, n)

\* Series.tail(n)
Tail_n(s, n) == IF n >= Len(s) THEN s ELSE SubSeq(s, Len(s) - n + 1, Len(s))

\* the sum of s[lo..hi], by halves
RECURSIVE RSumRange(_, _, _)
RSumRange(s, lo, hi) ==
    IF lo > hi THEN R(0)
    ELSE IF lo = hi THEN s[lo]
    ELSE LET mid == (lo + hi) \div 2
         IN  RAdd(RSumRange(s, lo, mid), RSumRange(s, mid + 1, hi))

RSum(s) == RSumRange(s, 1, Len(s))

\* the maximum of s[lo..hi], by halves
RECURSIVE RMaxRange(_, _, _)
RMaxRange(s, lo, hi) ==
    IF lo = hi THEN s[lo]
    ELSE LET mid == (lo + hi) \div 2
         IN  RMax(RMaxRange(s, lo, mid), RMaxRange(s, mid + 1, hi))

RMaxSeq(s) == RMaxRange(s, 1, Len(s))

Mean(s) == RDiv(RSum(s), R(Len(s)))

Max3(a, b, c) == IF a >= b /\ a >= c THEN a ELSE IF b >= c THEN b ELSE c

\* s.rolling(n, min_periods=n).mean()
_sma(s, n) ==
    [i \in 1..Len(s) |-> IF i >= n THEN Mean(SubSeq(s, i - n + 1, i)) ELSE None]

\* least-squares slope over the last n points, x = 0..n-1
_slope_last_n(y0, n) ==
    LET y == Tail_n(DropNa(y0), n)
        sx == RSum([i \in 1..n |-> R(i - 1)])
        sxx == RSum([i \in 1..n |-> R((i - 1) * (i - 1))])
        vx == RSub(RDiv(sxx, R(n)), RMul(RDiv(sx, R(n)), RDiv(sx, R(n))))
        sy == RSum(y)
        sxy == RSum([i \in 1..n |-> RMul(R(i - 1), y[i])])
        cov == RSub(RDiv(sxy, R(n)), RMul(RDiv(sx, R(n)), RDiv(sy, R(n))))
    IN  IF Len(y) < n THEN None
        ELSE IF vx = R(0) THEN None
        ELSE RDiv(cov, vx)

\* close.shift(k).iloc[-1]
ShiftLast(s, k) == IF Len(s) - k >= 1 THEN s[Len(s) - k] ELSE None

\* the minimum sample size without its margin of 5
MinHistory_nomargin(c) == Max3(c.sma_slow, c.peak_window, c.ret_window)

MinHistory(c) == Max3(c.sma_slow, c.peak_window, c.ret_window) + 5

\* the return condition left out of the conjunction
PassMomentum_noret(c1, c2, c3, c4, c5) == c1 /\ c2 /\ c4 /\ c5

PassMomentum(c1, c2, c3, c4, c5) == c1 /\ c2 /\ c3 /\ c4 /\ c5

NoPriceData == [pass_momentum |-> FALSE, reason |-> "no_price_data"]

\* the short result padded with the five condition flags set to false
InsufficientHistory_full(n) ==
    [pass_momentum |-> FALSE, reason |-> "insufficient_history", n_close |-> n,
     cond_ma_stack |-> FALSE, cond_slope_up |-> FALSE, cond_ret |-> FALSE,
     cond_drawdown |-> FALSE, cond_dev |-> FALSE]

InsufficientHistory(n) ==
    [pass_momentum |-> FALSE, reason |-> "insufficient_history", n_close |-> n]

compute_momentum_flags(h, c) ==
    IF h.kind = "none" \/ h.rows = <<>> \/ ~h.has_close THEN NoPriceData
    ELSE
    LET close == DropNa(h.rows) IN
    IF close = <<>> \/ Len(close) < MinHistory(c) THEN InsufficientHistory(Len(close))
    ELSE
    LET sma20 == _sma(close, c.sma_fast)
        sma50 == _sma(close, c.sma_slow)
        last_close == close[Len(close)]
        last_sma20 == sma20[Len(close)]
        last_sma50 == sma50[Len(close)]
        cond_ma_stack == /\ last_sma20 # None
                         /\ last_sma50 # None
                         /\ RGt(last_close, last_sma20)
                         /\ RGt(last_sma20, last_sma50)
        slope == _slope_last_n(sma20, c.slope_window)
        cond_slope_up == slope # None /\ RGt(slope, R(0))
        c0 == ShiftLast(close, c.ret_window)
        ret == IF c0 # None /\ RGt(c0, R(0))
               THEN RSub(RDiv(last_close, c0), R(1)) ELSE None
        cond_ret == ret # None /\ RGe(ret, c.ret_min)
        peak == RMaxSeq(Tail_n(close, c.peak_window))
        dd == IF RGt(peak, R(0)) THEN RSub(R(1), RDiv(last_close, peak)) ELSE None
        cond_drawdown == dd # None /\ RLe(dd, c.max_drawdown)
        dev == IF last_sma20 # None /\ RGt(last_sma20, R(0))
               THEN RSub(RDiv(last_close, last_sma20), R(1)) ELSE None
        cond_dev == dev # None /\ RLe(dev, c.max_dev_sma_fast)
    IN  [pass_momentum |-> PassMomentum(cond_ma_stack, cond_slope_up, cond_ret,
                                        cond_drawdown, cond_dev),
         cond_ma_stack |-> cond_ma_stack,
         cond_slope_up |-> cond_slope_up,
         cond_ret |-> cond_ret,
         cond_drawdown |-> cond_drawdown,
         cond_dev |-> cond_dev,
         last_close |-> last_close,
         last_sma_fast |-> last_sma20,
         last_sma_slow |-> last_sma50,
         sma_fast_slope |-> slope,
         ret_window |-> c.ret_window,
         ret |-> ret,
         peak_window |-> c.peak_window,
         drawdown_from_peak |-> dd,
         dev_from_sma_fast |-> dev]

----------------------------------------------------------------------------
(* Inputs                                                                  *)

MaxWeight == 150
MaxLen == 8
MaxNaN == 1
MaxClose == 2

EmptyDict == [k \in {} |-> RawNone]

RawAbsent == {RawNone, RawNaN, RawInf, RawText}

PriceSummaryInputs ==
    {EmptyDict} \cup
    {[avg_dollar_vol_20d |-> a, market_cap |-> m, last_close |-> c, currency |-> RawText] :
        a \in RawAbsent \cup {Num(R(2999999)), Num(R(3000000)), Num(R(5000000))},
        m \in {RawNone, RawText, Num(R(199999999)), Num(R(250000000))},
        c \in {RawNone, RawNaN, RawBool(TRUE), Num(R(3)), Num(R(4))}}

FactsInputs ==
    {NoFacts} \cup
    [cash : {None, R(12000000)},
     rev : {None, R(0), R(10000000)},
     gp : {None, R(1000000), R(4000000)},
     cfo : {None, R(-3000000), R(2000000)},
     capex : {None, R(1000000)},
     sbc : {None, R(500000)},
     yoy : {None}]

SecInputs ==
    {EmptyDict} \cup
    [cash_and_equivalents : {RawNone, Num(R(12000000)), Num(R(1000000))},
     operating_cash_flow : {RawNone, Num(R(-2000000)), Num(R(4000000))},
     free_cash_flow : {RawNone, Num(R(-3000000)), Num(R(1000000))},
     gross_margin : {RawNone, RawNaN, Num(Frac(1, 10)), Num(Frac(1, 2))},
     stock_based_compensation : {RawNone, Num(R(500000))}]

ThresholdInputs ==
    {[k \in {} |-> R(0)],
     [min_avg_dollar_vol_20d |-> R(5000000), min_market_cap |-> R(250000000),
      min_price |-> R(4), min_gross_margin |-> Frac(1, 2), min_runway_months |-> R(60)]}

DaysInputs == {30, 400}

WeightInputs ==
    {[k \in {} |-> R(0)],
     [liquidity |-> R(60), momentum |-> R(50), fundamentals |-> R(40)],
     [liquidity |-> R(-10), momentum |-> R(-20), fundamentals |-> R(-5)],
     [liquidity |-> R(MaxWeight), momentum |-> R(-35), fundamentals |-> R(7)],
     [momentum |-> Frac(1, 3), fundamentals |-> R(MaxWeight)]}

\* hard-gate dictionaries as any caller may pass them to compute_total_score
HardInputs ==
    {[k \in ks |-> IF k = "runway_months" THEN rw
                   ELSE IF k = "data_sufficient_fundamentals" THEN ok
                   ELSE IF k = "gate_liquidity" THEN gl
                   ELSE IF k = "gate_market_cap" THEN gm ELSE gp] :
        ks \in {{"gate_liquidity", "gate_market_cap", "gate_price"},
                {"gate_liquidity", "gate_market_cap", "gate_price",
                 "data_sufficient_fundamentals", "runway_months"}},
        rw \in {None, R(-6), R(12), R(48)},
        ok \in BOOLEAN, gl \in BOOLEAN, gm \in BOOLEAN, gp \in BOOLEAN}

\* momentum dictionaries: the first t condition keys present, the first h true
MomInputs ==
    {[k \in {"pass_momentum"} \cup {mom_conditions[i] : i \in 1..t} |->
        IF k = "pass_momentum" THEN h = 5
        ELSE \E i \in 1..h : mom_conditions[i] = k] :
        t \in 0..5, h \in 0..5} 

GrossMarginInputs ==
    {EmptyDict} \cup
    {[gross_margin |-> g] : g \in {RawNone, RawNaN, Num(Frac(-1, 5)), Num(Frac(3, 10)),
                                   Num(Frac(9, 10))}}

CloseVals == {R(i) : i \in 0..MaxClose}

RECURSIVE SeriesOf(_, _)
\* all Close columns of length n with at most k NaN entries
SeriesOf(n, k) ==
    IF n = 0 THEN {<<>>}
    ELSE {Append(s, v) : s \in SeriesOf(n - 1, k), v \in CloseVals}
         \cup (IF k = 0 THEN {}
               ELSE {Append(s, None) : s \in SeriesOf(n - 1, k - 1)})

HistInputs ==
    {NoHist, Frame(FALSE, <<>>), Frame(FALSE, <<R(1)>>)} \cup
    {Frame(TRUE, s) : s \in UNION {SeriesOf(n, MaxNaN) : n \in 0..MaxLen}}

DefaultCfg ==
    [sma_fast |-> 20, sma_slow |-> 50, slope_window |-> 20, ret_window |-> 20,
     ret_min |-> Frac(5, 100), peak_window |-> 60, max_drawdown |-> Frac(8, 100),
     max_dev_sma_fast |-> Frac(15, 100)]

\* windows scaled down so that MinHistory is within MaxLen
CfgInputs ==
    {[DefaultCfg EXCEPT !.sma_fast = 2, !.sma_slow = 3, !.slope_window = 2,
                        !.ret_window = 2, !.peak_window = 3,
                        !.max_dev_sma_fast = Frac(1, 2)],
     [DefaultCfg EXCEPT !.sma_slow = 1, !.slope_window = 1,
                        !.ret_window = 1, !.peak_window = 1],
     [DefaultCfg EXCEPT !.sma_fast = 1, !.sma_slow = 2, !.slope_window = 3,
                        !.ret_window = 3, !.peak_window = 2]}

NoResult == [k \in {} |-> None]

----------------------------------------------------------------------------
(* market.compute_price_summary.  An OHLCV history is None or a frame of   *)
(* rows [close, volume], either possibly None (null).  A quote answer is a *)
(* dictionary, empty when the source failed (get_quote_fast_info and       *)
(* get_quote_info return {} on any exception).                             *)

AvgWindow == 20

NoOhlcv == [kind |-> "none", rows |-> <<>>]
Ohlcv(rows) == [kind |-> "frame", rows |-> rows]
Bar(c, v) == [close |-> c, volume |-> v]

\* a currency: None or a string
CurNone == [kind |-> "none", s |-> ""]
Cur(s) == [kind |-> "str", s |-> s]

\* Python truthiness of a quote field: None, 0 and "" are falsy
IsTruthy(x) ==
    CASE x.kind = "none" -> FALSE
      [] x.kind = "num" -> x.v # R(0)
      [] x.kind = "str" -> x.s # ""
      [] OTHER -> TRUE

\* a or b
OrElse(a, b) == IF IsTruthy(a) THEN a ELSE b

QuoteGet(d, key, none) == IF key \in DOMAIN d THEN d[key] ELSE none

\* hist["Close"].dropna().iloc[-1], None when that raises
LastClose(h) ==
    LET closes == SelectSeq(h.rows, LAMBDA b : b.close # None)
    IN  IF h.kind = "none" \/ h.rows = <<>> \/ closes = <<>> THEN None
        ELSE closes[Len(closes)].close

\* every complete row, not only the last 20
DollarVolTail_all(h) ==
    SelectSeq(h.rows, LAMBDA b : b.close # None /\ b.volume # None)

\* hist[["Close", "Volume"]].dropna().tail(20)
DollarVolTail(h) ==
    Tail_n(SelectSeq(h.rows, LAMBDA b : b.close # None /\ b.volume # None), AvgWindow)

AvgDollarVol(h) ==
    LET tail == IF h.kind = "none" THEN <<>> ELSE DollarVolTail(h)
    IN  IF tail = <<>> THEN None
        ELSE Mean([i \in 1..Len(tail) |-> RMul(tail[i].close, tail[i].volume)])

\* market cap and currency: prefer fast_info, fall back to info
QuoteFields(fi, info) ==
    LET fast_cap == IF DOMAIN fi = {} THEN RawNone
                    ELSE OrElse(QuoteGet(fi, "market_cap", RawNone),
                                OrElse(QuoteGet(fi, "marketCap", RawNone), RawNone))
        fast_cur == IF DOMAIN fi = {} THEN CurNone
                    ELSE OrElse(QuoteGet(fi, "currency", CurNone), CurNone)
        info_cap == IF DOMAIN info = {} THEN RawNone ELSE QuoteGet(info, "marketCap", RawNone)
        info_cur == IF DOMAIN info = {} THEN CurNone ELSE QuoteGet(info, "currency", CurNone)
    IN  IF fast_cap.kind = "none"
        THEN [market_cap |-> info_cap, currency |-> OrElse(fast_cur, info_cur)]
        ELSE [market_cap |-> fast_cap, currency |-> fast_cur]

\* last_close and market_cap passed to PriceSummary in each other's place
compute_price_summary_swapped(h, fi, info) ==
    LET q == QuoteFields(fi, info)
    IN  [last_close |-> Wrap(_to_float(q.market_cap)),
         avg_dollar_vol_20d |-> Wrap(AvgDollarVol(h)),
         market_cap |-> Wrap(LastClose(h)),
         currency |-> q.currency]

compute_price_summary(h, fi, info) ==
    LET q == QuoteFields(fi, info)
    IN  [last_close |-> Wrap(LastClose(h)),
         avg_dollar_vol_20d |-> Wrap(AvgDollarVol(h)),
         \* float(market_cap), None when that raises
         market_cap |-> Wrap(_to_float(q.market_cap)),
         currency |-> q.currency]

MaxPrefix == 19
MaxSuffix == 3

RECURSIVE BarsOf(_)
\* all runs of n bars with a null close, a null volume or both present
BarsOf(n) ==
    IF n = 0 THEN {<<>>}
    ELSE {Append(b, x) : b \in BarsOf(n - 1),
                         x \in {Bar(R(2), R(3)), Bar(None, R(1)), Bar(R(1), None)}}

\* up to MaxPrefix complete bars followed by up to MaxSuffix arbitrary ones
OhlcvInputs ==
    {NoOhlcv} \cup
    {Ohlcv([i \in 1..m |-> Bar(R(1), R(1))] \o b) :
        m \in 0..MaxPrefix, b \in UNION {BarsOf(n) : n \in 0..MaxSuffix}}

NoQuote == [k \in {} |-> RawNone]

FastInputs ==
    {NoQuote,
     [market_cap |-> Num(R(250000000))],
     [marketCap |-> Num(R(250000000)), currency |-> Cur("USD")],
     [market_cap |-> Num(R(0)), currency |-> Cur("USD")],
     [currency |-> Cur("USD")],
     [market_cap |-> RawText, currency |-> Cur("")]}

InfoInputs ==
    {NoQuote,
     [marketCap |-> Num(R(1000000000)), currency |-> Cur("EUR")],
     [marketCap |-> Num(R(1000000000))],
     [currency |-> Cur("EUR")]}

QuoteInputs == [fast : FastInputs, info : InfoInputs]

(* cli.refresh.  The IPO source serves a table of entries [ticker,         *)
(* ipo_date]; tickers are strings over a small alphabet, some in lower     *)
(* case, and dates are day numbers.  listing tells, for an upper-cased     *)
(* ticker, what the market and SEC collaborators answer.  The output file  *)
(* is the sequence of its rows; a missing file reads as no rows.           *)

UpperTickers == {"AAA", "BBB", "CCC"}

\* str.upper()
Upper(t) == IF t = "aaa" THEN "AAA" ELSE t

Entry(t, day) == [ticker |-> t, ipo_date |-> day]

Today == 330

Min2(a, b) == IF a <= b THEN a ELSE b

\* the table left as fetched, without upper-casing
NormalizeTickers_raw(u) == u

\* ipos["ticker"].astype(str).str.strip().str.upper()
NormalizeTickers(u) == [i \in DOMAIN u |-> Entry(Upper(u[i].ticker), u[i].ipo_date)]

\* the orders sort_values("ipo_date") may produce: ascending, ties in any order
SortedOrders(u) ==
    {p \in [1..Len(u) -> 1..Len(u)] :
        /\ \A i, j \in 1..Len(u) : i # j => p[i] # p[j]
        /\ \A i, j \in 1..Len(u) : i < j => u[p[i]].ipo_date <= u[p[j]].ipo_date}

\* DataFrame.head(n), n >= 0
Head_n(u, n) == SubSeq(u, 1, Min2(n, Len(u)))

\* the rows of s at the indices in keep, in order
RECURSIVE Pick(_, _, _)
Pick(s, keep, i) ==
    IF i > Len(s) THEN <<>>
    ELSE IF i \in keep THEN <<s[i]>> \o Pick(s, keep, i + 1)
    ELSE Pick(s, keep, i + 1)

\* no de-duplication
drop_duplicates_none(rows) == rows

\* merged.drop_duplicates(subset=["ticker"], keep="last")
drop_duplicates(rows) ==
    Pick(rows, {i \in DOMAIN rows : \A j \in DOMAIN rows : j > i => rows[j].ticker # rows[i].ticker}, 1)

\* row a sorts before row b: total_score descending, then days_since_ipo ascending
Before(a, b) ==
    \/ RGt(a.total_score, b.total_score)
    \/ a.total_score = b.total_score /\ a.days_since_ipo < b.days_since_ipo

\* x put behind every row that does not sort after it
InsertRow(sorted, x) ==
    LET k == Cardinality({i \in DOMAIN sorted : ~Before(x, sorted[i])})
    IN  SubSeq(sorted, 1, k) \o <<x>> \o SubSeq(sorted, k + 1, Len(sorted))

\* merged.sort_values(["total_score", "days_since_ipo"], ascending=[False, True]),
\* a stable sort
RECURSIVE SortRows(_, _)
SortRows(rows, n) == IF n = 0 THEN <<>> ELSE InsertRow(SortRows(rows, n - 1), rows[n])

\* what the collaborators answer for a listed ticker: its history, its
\* quote and its company facts
ListedOhlcv == Ohlcv(<<Bar(R(10), R(500000))>>)
ListedFast == [market_cap |-> Num(R(250000000)), currency |-> Cur("USD")]
ListedFacts ==
    [cash |-> R(12000000), rev |-> R(10000000), gp |-> R(4000000),
     cfo |-> R(2000000), capex |-> R(1000000), sbc |-> R(500000), yoy |-> None]

\* the Close column of a history
CloseOf(h) == Frame(TRUE, [i \in DOMAIN h.rows |-> h.rows[i].close])

\* the market and scoring part of the loop body for a ticker that is
\* equity-like and has a history, listed since day; with_metrics tells
\* whether compute_financial_metrics returned the company's metrics
Scored(day, with_metrics) ==
    LET ps == compute_price_summary(ListedOhlcv, ListedFast, NoQuote)
        mom == compute_momentum_flags(CloseOf(ListedOhlcv), DefaultCfg)
        sm == IF with_metrics THEN compute_financial_metrics(ListedFacts) ELSE EmptyDict
        days == Today - day
        hg == compute_hard_gates(ps, sm, days, [k \in {} |-> R(0)])
        sc == compute_total_score(hg, mom, ps, sm, [k \in {} |-> R(0)])
    IN  [days_since_ipo |-> days,
         pass_momentum |-> mom.pass_momentum,
         has_metrics |-> DOMAIN sm # {},
         pass_hard_gates |-> hg.pass_hard_gates,
         total_score |-> sc.score_total]

\* the days on which the source lists an IPO
IpoDays == {100, 150, 200, 300}

\* Scored, tabulated
ScoredRows == [day \in IpoDays, with_metrics \in BOOLEAN |-> Scored(day, with_metrics)]

\* one pass of the loop body for a ticker that is equity-like and has a
\* history; sec_map is the outcome of the ticker-to-CIK map download and
\* kind tells whether the company facts can be fetched
ScoreRow(e, kind, sec_map) ==
    LET cik == sec_map = "ok"
        sec_metrics_found == cik /\ kind = "filer"
        r == ScoredRows[e.ipo_date, sec_metrics_found]
    IN  [ticker |-> Upper(e.ticker),
         ipo_date |-> e.ipo_date,
         days_since_ipo |-> r.days_since_ipo,
         pass_momentum |-> r.pass_momentum,
         has_metrics |-> r.has_metrics,
         pass_hard_gates |-> r.pass_hard_gates,
         total_score |-> r.total_score]

\* the loop over the batch from entry i on; acc holds the rows so far, the
\* tickers looked up so far and whether an exception left the loop
RECURSIVE ProcessBatch(_, _, _, _, _)
ProcessBatch(batch, lst, sec_map, i, acc) ==
    IF i > Len(batch) THEN acc
    ELSE
    LET ticker == Upper(batch[i].ticker)
        seen == [acc EXCEPT !.fetched = @ \cup {ticker}]
    IN  IF lst[ticker] = "non_equity" THEN ProcessBatch(batch, lst, sec_map, i + 1, seen)
        ELSE IF lst[ticker] = "no_history" THEN ProcessBatch(batch, lst, sec_map, i + 1, seen)
        ELSE IF sec_map = "raise" THEN [seen EXCEPT !.aborted = TRUE]
        ELSE ProcessBatch(batch, lst, sec_map, i + 1,
                 [seen EXCEPT !.rows = Append(@, ScoreRow(batch[i], lst[ticker], sec_map))])

\* merged["ticker"] = merged["ticker"].astype(str).str.upper()
UpperRows(rows) == [i \in DOMAIN rows |-> [rows[i] EXCEPT !.ticker = Upper(@)]]

\* the locals of a refresh call at its return
Locals(a, existing, processed, remaining, batch, res, wrote, sec_map) ==
    [cik_map |-> sec_map, resume |-> a.resume, batch_size |-> a.batch_size, existing |-> existing,
     processed |-> processed, remaining |-> remaining, batch |-> batch,
     rows |-> res.rows, fetched |-> res.fetched, aborted |-> res.aborted,
     wrote |-> wrote]

NoRows == [rows |-> <<>>, fetched |-> {}, aborted |-> FALSE]

\* one run of refresh with a start date, from the load of the existing file
\* to the save
Refresh(sec_map) ==
    /\ \E existing \in {IF args.resume THEN out_file ELSE <<>>} :
       \E processed \in {{Upper(existing[i].ticker) : i \in DOMAIN existing}} :
       \E remaining \in {SelectSeq(NormalizeTickers(ipos), LAMBDA e : e.ticker \notin processed)} :
          IF Len(ipos) = 0 \/ Len(remaining) = 0
          THEN /\ run' = Locals(args, existing, processed, remaining, <<>>, NoRows, FALSE, sec_map)
               /\ out_file' = out_file
          ELSE \E p \in SortedOrders(remaining) :
               \E batch \in {Head_n([i \in DOMAIN remaining |-> remaining[p[i]]], args.batch_size)} :
               \E res \in {ProcessBatch(batch, listing, sec_map, 1, NoRows)} :
               \E deduped \in {drop_duplicates(UpperRows(
                                  IF args.resume /\ Len(existing) > 0
                                  THEN existing \o res.rows ELSE res.rows))} :
                  LET merged == SortRows(deduped, Len(deduped))
                      wrote == ~res.aborted /\ Len(res.rows) > 0
                  IN  /\ run' = Locals(args, existing, processed, remaining, batch, res, wrote, sec_map)
                      /\ out_file' = IF wrote THEN merged ELSE out_file
    /\ UNCHANGED <<ipos, listing, args>>
    /\ UNCHANGED <<scoring, market, limiter, cikmap>>

\* the next invocation: the source may serve another table and the command
\* line may differ
Invocation(universes, arguments) ==
    /\ \E u \in universes, a \in arguments :
          /\ u # ipos \/ a # args
          /\ ipos' = u
          /\ args' = a
    /\ run' = <<>>
    /\ UNCHANGED <<out_file, listing>>
    /\ UNCHANGED <<scoring, market, limiter, cikmap>>

MaxBatch == 2

Universes ==
    {<<>>,
     <<Entry("CCC", 300)>>,
     <<Entry("CCC", 200), Entry("BBB", 200)>>,
     <<Entry("CCC", 300), Entry("BBB", 200), Entry("AAA", 100)>>,
     <<Entry("BBB", 200), Entry("aaa", 150), Entry("AAA", 100)>>,
     <<Entry("CCC", 300), Entry("aaa", 150)>>}

Listings == [UpperTickers -> {"filer", "no_filings", "non_equity", "no_history"}]

ArgsInputs == [resume : BOOLEAN, batch_size : 1..MaxBatch]

MapOutcomes == {"ok", "bad", "raise"}

MarketIdle ==
    /\ ohlcv = NoOhlcv
    /\ quote = [fast |-> NoQuote, info |-> NoQuote]
    /\ summaries = <<>>

PipelineIdle ==
    /\ out_file = <<>>
    /\ run = <<>>
    /\ ipos = <<>>
    /\ listing = <<>>
    /\ args = <<>>

CikIdle ==
    /\ cik_cache = <<>>
    /\ endpoint = "ok"
    /\ lookups = <<>>

LimiterIdle ==
    /\ clock = 0
    /\ rl_last = 0
    /\ thread = <<>>
    /\ starts = <<>>

----------------------------------------------------------------------------
(* Operations                                                              *)

\* cli.refresh, SEC data (best-effort): no CIK, or a raised error, leaves {}
SecData ==
    /\ pc = "sec"
    /\ \E outcome \in {"ok", "no_cik", "raise"} :
          sec_metrics' = IF outcome = "ok" THEN compute_financial_metrics(facts)
                         ELSE EmptyDict
    /\ pc' = "gates"
    /\ UNCHANGED <<price_summary, thresholds, hard, hist, cfg, momentum, weights, score, facts>>
    /\ UNCHANGED <<market, pipeline, limiter, cikmap>>

MomentumFlags ==
    /\ pc = "mom"
    /\ momentum' = compute_momentum_flags(hist, cfg)
    /\ pc' = "score"
    /\ UNCHANGED <<price_summary, sec_metrics, thresholds, hard, hist, cfg, weights, score, facts>>
    /\ UNCHANGED <<market, pipeline, limiter, cikmap>>

HardGates ==
    /\ pc = "gates"
    /\ \E days \in DaysInputs :
          hard' = compute_hard_gates(price_summary, sec_metrics, days, thresholds)
    /\ pc' = "score"
    /\ UNCHANGED <<price_summary, sec_metrics, thresholds, hist, cfg, momentum, weights, score, facts>>
    /\ UNCHANGED <<market, pipeline, limiter, cikmap>>

TotalScore ==
    /\ pc = "score"
    /\ score' = compute_total_score(hard, momentum, price_summary, sec_metrics, weights)
    /\ pc' = "done"
    /\ UNCHANGED <<price_summary, sec_metrics, thresholds, hard, hist, cfg, momentum, weights, facts>>
    /\ UNCHANGED <<market, pipeline, limiter, cikmap>>

----------------------------------------------------------------------------
(* Specifications                                                          *)

\* compute_hard_gates on any inputs, then scored with default weights
InitGates ==
    /\ pc = "gates"
    /\ price_summary \in PriceSummaryInputs
    /\ sec_metrics \in SecInputs
    /\ thresholds \in ThresholdInputs
    /\ hard = NoResult
    /\ hist = NoHist
    /\ cfg = DefaultCfg
    /\ momentum = NoPriceData
    /\ weights = [k \in {} |-> R(0)]
    /\ score = NoResult
    /\ facts = NoFacts
    /\ MarketIdle /\ PipelineIdle /\ LimiterIdle /\ CikIdle

NextGates == HardGates \/ TotalScore

SpecGates == InitGates /\ [][NextGates]_vars

\* compute_total_score on any hard-gate and momentum dictionaries
InitScore ==
    /\ pc = "score"
    /\ price_summary = EmptyDict
    /\ sec_metrics \in GrossMarginInputs
    /\ thresholds = [k \in {} |-> R(0)]
    /\ hard \in HardInputs
    /\ hist = NoHist
    /\ cfg = DefaultCfg
    /\ momentum \in MomInputs
    /\ weights \in WeightInputs
    /\ score = NoResult
    /\ facts = NoFacts
    /\ MarketIdle /\ PipelineIdle /\ LimiterIdle /\ CikIdle

NextScore == TotalScore

SpecScore == InitScore /\ [][NextScore]_vars

\* compute_momentum_flags on any history, then scored
InitMom ==
    /\ pc = "mom"
    /\ price_summary = EmptyDict
    /\ sec_metrics = EmptyDict
    /\ thresholds = [k \in {} |-> R(0)]
    /\ hard = compute_hard_gates(EmptyDict, EmptyDict, 30, [k \in {} |-> R(0)])
    /\ hist \in HistInputs
    /\ cfg \in CfgInputs
    /\ momentum = NoResult
    /\ weights \in {[k \in {} |-> R(0)], [momentum |-> R(60)]}
    /\ score = NoResult
    /\ facts = NoFacts
    /\ MarketIdle /\ PipelineIdle /\ LimiterIdle /\ CikIdle

NextMom == MomentumFlags \/ TotalScore

SpecMom == InitMom /\ [][NextMom]_vars

\* the body of refresh for one ticker, from the SEC lookup to the score
Init ==
    /\ pc = "sec"
    /\ price_summary \in {ps \in PriceSummaryInputs :
                            /\ DOMAIN ps # {}
                            /\ ps.market_cap = Num(R(250000000))
                            /\ ps.last_close = Num(R(4))
                            /\ ps.avg_dollar_vol_20d \in {RawNone, Num(R(5000000))}}
    /\ sec_metrics = EmptyDict
    /\ thresholds = [k \in {} |-> R(0)]
    /\ hard = NoResult
    /\ hist = NoHist
    /\ cfg = DefaultCfg
    /\ momentum \in {NoPriceData, InsufficientHistory(3)}
    /\ weights = [k \in {} |-> R(0)]
    /\ score = NoResult
    /\ facts \in FactsInputs
    /\ MarketIdle /\ PipelineIdle /\ LimiterIdle /\ CikIdle

Next == SecData \/ HardGates \/ TotalScore

Spec == Init /\ [][Next]_vars

\* one call of compute_price_summary against the quote service as it answers now
PriceSummary ==
    /\ Len(summaries) < 2
    /\ summaries' = Append(summaries, compute_price_summary(ohlcv, quote.fast, quote.info))
    /\ UNCHANGED <<ohlcv, quote>>
    /\ UNCHANGED <<scoring, pipeline, limiter, cikmap>>

\* the quote service answers differently from now on
QuoteChange ==
    /\ Len(summaries) = 1
    /\ \E q \in QuoteInputs : q # quote /\ quote' = q
    /\ UNCHANGED <<ohlcv, summaries>>
    /\ UNCHANGED <<scoring, pipeline, limiter, cikmap>>

ScoringIdle ==
    /\ pc = "idle"
    /\ price_summary = EmptyDict
    /\ sec_metrics = EmptyDict
    /\ thresholds = [k \in {} |-> R(0)]
    /\ hard = NoResult
    /\ hist = NoHist
    /\ cfg = DefaultCfg
    /\ momentum = NoResult
    /\ weights = [k \in {} |-> R(0)]
    /\ score = NoResult
    /\ facts = NoFacts

\* compute_price_summary on any history and any quote answers
InitPrice ==
    /\ ScoringIdle /\ PipelineIdle /\ LimiterIdle /\ CikIdle
    /\ ohlcv \in OhlcvInputs
    /\ quote \in QuoteInputs
    /\ summaries = <<>>

NextPrice == PriceSummary

SpecPrice == InitPrice /\ [][NextPrice]_vars

\* compute_price_summary called twice with the same arguments
InitTwice ==
    /\ ScoringIdle /\ PipelineIdle /\ LimiterIdle /\ CikIdle
    /\ ohlcv \in {NoOhlcv, Ohlcv(<<Bar(R(2), R(3))>>), Ohlcv(<<Bar(R(2), R(3)), Bar(R(1), None)>>)}
    /\ quote \in QuoteInputs
    /\ summaries = <<>>

NextTwice == PriceSummary \/ QuoteChange

SpecTwice == InitTwice /\ [][NextTwice]_vars

MinLinearLen == MinHistory(DefaultCfg)
MaxLinearLen == 70

\* n closes rising by a constant step from first
Linear(first, step, n) == [i \in 1..n |-> RAdd(first, RMul(R(i - 1), step))]

LinearInputs ==
    {Frame(TRUE, Linear(first, step, n)) :
        first \in {R(1), R(100), Frac(5, 2)},
        step \in {Frac(40, 69), R(1), Frac(1, 3), R(5)},
        n \in MinLinearLen..MaxLinearLen}

\* compute_momentum_flags with its default windows on linearly rising closes
InitLinear ==
    /\ pc = "mom"
    /\ price_summary = EmptyDict
    /\ sec_metrics = EmptyDict
    /\ thresholds = [k \in {} |-> R(0)]
    /\ hard = compute_hard_gates(EmptyDict, EmptyDict, 30, [k \in {} |-> R(0)])
    /\ hist \in LinearInputs
    /\ cfg = DefaultCfg
    /\ momentum = NoResult
    /\ weights = [k \in {} |-> R(0)]
    /\ score = NoResult
    /\ facts = NoFacts
    /\ MarketIdle /\ PipelineIdle /\ LimiterIdle /\ CikIdle

NextLinear == MomentumFlags \/ TotalScore

SpecLinear == InitLinear /\ [][NextLinear]_vars

\* any sequence of refresh runs over any tables and command lines
InitRefresh ==
    /\ ScoringIdle /\ MarketIdle /\ LimiterIdle /\ CikIdle
    /\ out_file = <<>>
    /\ run = <<>>
    /\ ipos \in Universes
    /\ listing \in Listings
    /\ args \in ArgsInputs

NextRefresh ==
    \/ \E sec_map \in MapOutcomes : Refresh(sec_map)
    \/ Invocation(Universes, ArgsInputs)

SpecRefresh == InitRefresh /\ [][NextRefresh]_vars

\* refresh --resume repeated with the same command line over a table and
\* collaborators that do not change and an SEC service that answers; the
\* command is run again and again
InitResume ==
    /\ ScoringIdle /\ MarketIdle /\ LimiterIdle /\ CikIdle
    /\ out_file = <<>>
    /\ run = <<>>
    /\ ipos \in Universes
    /\ listing \in Listings
    /\ args \in {a \in ArgsInputs : a.resume}

NextResume == Refresh("ok")

SpecResume == InitResume /\ [][NextResume]_vars /\ WF_vars(NextResume)

----------------------------------------------------------------------------
(* sec._RateLimiter and sec._sec_get_json called from worker threads.      *)
(* Time is counted in ticks of 1/16 s; clock is time.time(), rl_last is    *)
(* _rl._last, thread[w] is where worker w stands in _sec_get_json and      *)
(* starts lists the times at which the HTTP requests were started.         *)

Workers == {"w1", "w2"}

\* 1.0 / max_rps with max_rps = 8.0, in ticks
min_interval == 2

MaxClock == 6
MaxRequests == 3

Idle == [pc |-> "idle", wake |-> 0]

InFlight == Cardinality({w \in Workers : thread[w].pc # "idle"})

\* time passes
Tick ==
    /\ clock < MaxClock
    /\ clock' = clock + 1
    /\ UNCHANGED <<rl_last, thread, starts>>
    /\ UNCHANGED <<scoring, market, pipeline, cikmap>>

\* wait(), lines 34-37: read the clock and _last, then sleep or go on
Wait(w) ==
    /\ thread[w].pc = "idle"
    /\ Len(starts) + InFlight < MaxRequests
    /\ LET now == clock
           dt == now - rl_last
       IN  thread' = [thread EXCEPT ![w] =
                         IF dt < min_interval
                         THEN [pc |-> "sleeping", wake |-> now + (min_interval - dt)]
                         ELSE [pc |-> "ready", wake |-> 0]]
    /\ UNCHANGED <<clock, rl_last, starts>>
    /\ UNCHANGED <<scoring, market, pipeline, cikmap>>

\* time.sleep returns, no earlier than asked
Wake(w) ==
    /\ thread[w].pc = "sleeping"
    /\ clock >= thread[w].wake
    /\ thread' = [thread EXCEPT ![w] = [pc |-> "ready", wake |-> 0]]
    /\ UNCHANGED <<clock, rl_last, starts>>
    /\ UNCHANGED <<scoring, market, pipeline, cikmap>>

\* wait(), line 38, and the start of requests.get
Get(w) ==
    /\ thread[w].pc = "ready"
    /\ rl_last' = clock
    /\ starts' = Append(starts, clock)
    /\ thread' = [thread EXCEPT ![w] = Idle]
    /\ UNCHANGED clock
    /\ UNCHANGED <<scoring, market, pipeline, cikmap>>

\* the limiter as constructed, long after the epoch
InitLimiter ==
    /\ ScoringIdle /\ MarketIdle /\ PipelineIdle /\ CikIdle
    /\ clock = min_interval
    /\ rl_last = 0
    /\ thread = [w \in Workers |-> Idle]
    /\ starts = <<>>

NextLimiter == Tick \/ \E w \in Workers : Wait(w) \/ Wake(w) \/ Get(w)

SpecLimiter == InitLimiter /\ [][NextLimiter]_vars

----------------------------------------------------------------------------
(* sec.load_ticker_cik_map and sec.ticker_to_cik in one process.           *)
(* endpoint is how the SEC endpoint answers now, cik_cache is the          *)
(* lru_cache of load_ticker_cik_map (no entry, or the returned map) and    *)
(* lookups lists the calls of ticker_to_cik with their results.            *)

EndpointStates == {"ok", "status", "garbled", "raise"}

\* the body of company_tickers.json
TickersJson ==
    <<[ticker |-> "aaa", cik_str |-> 1],
      [ticker |-> "BBB", cik_str |-> 2],
      [ticker |-> "", cik_str |-> 3]>>

\* _sec_get_json when requests.get returns: the parsed body, or None for a
\* status other than 200 or a body that is not JSON
_sec_get_json(e) == IF e = "ok" THEN TickersJson ELSE <<>>

\* the body of load_ticker_cik_map: the tickers upper-cased, empty ones left out
BuildMap(data) ==
    LET ts == {Upper(data[i].ticker) : i \in DOMAIN data} \ {""}
    IN  [t \in ts |->
            LET last == CHOOSE i \in DOMAIN data :
                            /\ Upper(data[i].ticker) = t
                            /\ \A j \in DOMAIN data : Upper(data[j].ticker) = t => j <= i
            IN  data[last].cik_str]

NoEntry == [kind |-> "none", map |-> <<>>]
Cached(m) == [kind |-> "map", map |-> m]

\* functools.lru_cache(maxsize=1) on a function without arguments: whatever
\* it returned is kept
Memoize(m) == Cached(m)

Found(c) == [kind |-> "cik", cik |-> c]
NotFound == [kind |-> "none", cik |-> 0]
Raised == [kind |-> "raise", cik |-> 0]

\* m.get(ticker.upper())
MapGet(m, t) == IF Upper(t) \in DOMAIN m THEN Found(m[Upper(t)]) ELSE NotFound

MaxLookups == 3

LookupTickers == {"AAA", "aaa", "BBB", "CCC"}

Call(t, result, downloaded) ==
    [ticker |-> t, result |-> result, endpoint |-> endpoint, downloaded |-> downloaded]

\* one call of ticker_to_cik
TickerToCik ==
    /\ Len(lookups) < MaxLookups
    /\ \E t \in LookupTickers :
          IF cik_cache.kind = "map"
          THEN /\ lookups' = Append(lookups, Call(t, MapGet(cik_cache.map, t), FALSE))
               /\ UNCHANGED cik_cache
          ELSE IF endpoint = "raise"
          THEN /\ lookups' = Append(lookups, Call(t, Raised, TRUE))
               /\ UNCHANGED cik_cache
          ELSE \E m \in {BuildMap(_sec_get_json(endpoint))} :
               /\ cik_cache' = Memoize(m)
               /\ lookups' = Append(lookups, Call(t, MapGet(m, t), TRUE))
    /\ UNCHANGED endpoint
    /\ UNCHANGED <<scoring, market, pipeline, limiter>>

\* the SEC endpoint fails or recovers
EndpointChange ==
    /\ \E e \in EndpointStates : e # endpoint /\ endpoint' = e
    /\ UNCHANGED <<cik_cache, lookups>>
    /\ UNCHANGED <<scoring, market, pipeline, limiter>>

\* a fresh process: nothing memoized yet
InitCik ==
    /\ ScoringIdle /\ MarketIdle /\ PipelineIdle /\ LimiterIdle
    /\ cik_cache = NoEntry
    /\ endpoint \in EndpointStates
    /\ lookups = <<>>

NextCik == TickerToCik \/ EndpointChange

SpecCik == InitCik /\ [][NextCik]_vars

----------------------------------------------------------------------------
(* Properties                                                              *)

GatesDone == DOMAIN hard # {}
ScoreDone == pc = "done"
MomDone == DOMAIN momentum # {}
Evaluated == MomDone /\ "reason" \notin DOMAIN momentum

\* a raw value that carries a finite number
Present(x) == x.kind \in {"num", "bool"}
PresentIn(d, key) == key \in DOMAIN d /\ Present(d[key])

RefClamp(x, lo, hi) == IF RLt(x, lo) THEN lo ELSE IF RGt(x, hi) THEN hi ELSE x

ComponentSum ==
    RAdd(RAdd(score.score_components.liquidity, score.score_components.momentum),
         score.score_components.fundamentals)

\* C1: whatever the gate flags, momentum flags, fundamentals and weights
\* (also weights that do not sum to 100 or are negative), score_total lies
\* in [0, 100] and equals the sum of the three components clamped to [0, 100].
C1_ScoreClamped ==
    ScoreDone =>
        /\ RLe(R(0), score.score_total)
        /\ RLe(score.score_total, R(100))
        /\ score.score_total = RefClamp(ComponentSum, R(0), R(100))

C1_Witness ==
    /\ ScoreDone
    /\ RGt(ComponentSum, R(100))
    /\ score.score_total = R(100)

AllGates ==
    /\ hard.gate_liquidity
    /\ hard.gate_market_cap
    /\ hard.gate_price
    /\ hard.gate_gross_margin
    /\ hard.gate_runway

\* C2: pass_hard_gates is true exactly when the five gates are all true; so a
\* passing result has its three strict gates true.
C2_PassIffAllGates ==
    GatesDone =>
        /\ hard.pass_hard_gates = AllGates
        /\ (hard.pass_hard_gates =>
               hard.gate_liquidity /\ hard.gate_market_cap /\ hard.gate_price)

C2_Witness ==
    /\ GatesDone
    /\ hard.data_sufficient_fundamentals
    /\ hard.gate_liquidity /\ hard.gate_market_cap /\ hard.gate_price
    /\ hard.gate_gross_margin
    /\ ~hard.gate_runway
    /\ ~hard.pass_hard_gates

\* the strict gate the claim expects for one field of the price summary
FailClosed(key, gate, thkey, default) ==
    IF PresentIn(price_summary, key)
    THEN gate = RGe(price_summary[key].v, GetOr(thresholds, thkey, default))
    ELSE ~gate /\ ~hard.pass_hard_gates

\* C3: a strict gate whose value is absent (None, NaN, infinite, non-numeric
\* or no price summary at all) is false and so is pass_hard_gates, whatever
\* the fundamentals; a present value gives gate = (value >= threshold).
C3_StrictFailClosed ==
    GatesDone =>
        /\ FailClosed("avg_dollar_vol_20d", hard.gate_liquidity,
                      "min_avg_dollar_vol_20d", R(3000000))
        /\ FailClosed("market_cap", hard.gate_market_cap,
                      "min_market_cap", R(200000000))
        /\ FailClosed("last_close", hard.gate_price, "min_price", R(3))

C3_Witness ==
    /\ GatesDone
    /\ DOMAIN price_summary # {}
    /\ price_summary.avg_dollar_vol_20d = RawNaN
    /\ hard.gate_market_cap /\ hard.gate_price
    /\ hard.gate_gross_margin /\ hard.gate_runway
    /\ ~hard.gate_liquidity
    /\ ~hard.pass_hard_gates

PresentCount(d, keys) == Cardinality({k \in keys : PresentIn(d, k)})

\* C4: with fewer than 2 of the five fundamentals present the data is
\* insufficient, both soft gates are true whatever the raw values, and
\* pass_hard_gates is the conjunction of the three strict gates.
C4_SoftPassOpen ==
    (GatesDone /\ PresentCount(sec_metrics, SoftKeys) < 2) =>
        /\ ~hard.data_sufficient_fundamentals
        /\ hard.gate_gross_margin
        /\ hard.gate_runway
        /\ hard.pass_hard_gates =
              (hard.gate_liquidity /\ hard.gate_market_cap /\ hard.gate_price)

C4_Witness ==
    /\ GatesDone
    /\ PresentCount(sec_metrics, SoftKeys) = 1
    /\ PresentIn(sec_metrics, "gross_margin")
    /\ RLt(sec_metrics.gross_margin.v, GetOr(thresholds, "min_gross_margin", Frac(1, 5)))
    /\ hard.gate_gross_margin
    /\ hard.pass_hard_gates

\* the five sufficiency fields of a FundamentalMetrics record
FundamentalFields == {"cash", "cfo", "fcf", "gross_margin", "sbc"}

\* C5: for the record compute_financial_metrics produces and refresh passes,
\* data_sufficient_fundamentals is true exactly when at least 2 of cash, cfo,
\* fcf, gross_margin, sbc are non-null.
C5_SufficientIffTwoFields ==
    GatesDone =>
        hard.data_sufficient_fundamentals =
            (PresentCount(sec_metrics, FundamentalFields) >= 2)

\* the value a fundamentals key carries, None when it is absent
ValueIn(d, key) == IF PresentIn(d, key) THEN d[key].v ELSE None

ClaimedBurn ==
    LET fcf == ValueIn(sec_metrics, "free_cash_flow")
        cfo == ValueIn(sec_metrics, "operating_cash_flow")
    IN  IF fcf # None /\ fcf[1] < 0 THEN <<-fcf[1], fcf[2]>>
        ELSE IF cfo # None /\ cfo[1] < 0 THEN <<-cfo[1], cfo[2]>>
        ELSE None

\* C6: with cash present and a burn defined (-fcf if fcf < 0, else -cfo if
\* cfo < 0), runway_months = 12 * cash / burn and, when the data is
\* sufficient, gate_runway = (runway_months >= min_runway_months); cash of
\* 12,000,000 with fcf = -3,000,000 gives 48 months.  Without a burn
\* runway_months is None and gate_runway is true.
C6_Runway ==
    GatesDone =>
        LET cash == ValueIn(sec_metrics, "cash_and_equivalents")
            burn == ClaimedBurn
            min_runway == GetOr(thresholds, "min_runway_months", R(12))
        IN  /\ (cash # None /\ burn # None) =>
                   /\ hard.runway_months = RDiv(RMul(R(12), cash), burn)
                   /\ hard.data_sufficient_fundamentals =>
                          (hard.gate_runway = RGe(hard.runway_months, min_runway))
            /\ (burn = None) =>
                   /\ hard.runway_months = None
                   /\ hard.gate_runway
            /\ (cash = R(12000000) /\ ValueIn(sec_metrics, "free_cash_flow") = R(-3000000)) =>
                   hard.runway_months = R(48)

C6_Witness ==
    /\ GatesDone
    /\ DOMAIN thresholds = {}
    /\ ValueIn(sec_metrics, "cash_and_equivalents") = R(12000000)
    /\ ValueIn(sec_metrics, "free_cash_flow") = R(-3000000)
    /\ ValueIn(sec_metrics, "operating_cash_flow") = R(-2000000)
    /\ hard.data_sufficient_fundamentals
    /\ hard.runway_months = R(48)
    /\ hard.gate_runway

AllConds == \A i \in DOMAIN mom_conditions : Truthy(momentum, mom_conditions[i])

\* C7: pass_momentum is true exactly when the five conditions are all true;
\* a condition whose quantity is undefined (an SMA missing, no slope, no
\* return, no drawdown, no deviation) is reported false and makes
\* pass_momentum false.
C7_PassIffAllConds ==
    MomDone =>
        /\ momentum.pass_momentum = AllConds
        /\ Evaluated =>
              /\ (momentum.last_sma_fast = None \/ momentum.last_sma_slow = None)
                     => ~momentum.cond_ma_stack /\ ~momentum.pass_momentum
              /\ momentum.sma_fast_slope = None
                     => ~momentum.cond_slope_up /\ ~momentum.pass_momentum
              /\ momentum.ret = None
                     => ~momentum.cond_ret /\ ~momentum.pass_momentum
              /\ momentum.drawdown_from_peak = None
                     => ~momentum.cond_drawdown /\ ~momentum.pass_momentum
              /\ momentum.dev_from_sma_fast = None
                     => ~momentum.cond_dev /\ ~momentum.pass_momentum

C7_Witness ==
    /\ Evaluated
    /\ momentum.ret = None
    /\ momentum.cond_ma_stack /\ momentum.cond_slope_up
    /\ momentum.cond_drawdown /\ momentum.cond_dev
    /\ ~momentum.cond_ret
    /\ ~momentum.pass_momentum

\* number of valid (numeric) closes of the history
ValidCloses ==
    IF hist.kind = "none" \/ ~hist.has_close THEN 0
    ELSE Cardinality({i \in DOMAIN hist.rows : hist.rows[i] # None})

RequiredCloses ==
    5 + (CHOOSE m \in {cfg.sma_slow, cfg.peak_window, cfg.ret_window} :
            \A x \in {cfg.sma_slow, cfg.peak_window, cfg.ret_window} : m >= x)

HasAllConds == \A i \in DOMAIN mom_conditions : mom_conditions[i] \in DOMAIN momentum

HasReason(r) == "reason" \in DOMAIN momentum /\ momentum.reason = r

\* no frame, a frame without rows, or a frame without a Close column
NoFrame == hist.kind = "none" \/ hist.rows = <<>> \/ ~hist.has_close

\* C8 as claimed: fewer than max(sma_slow, peak_window, ret_window) + 5 valid
\* closes, an empty or missing history included, give pass_momentum = false
\* with reason "insufficient_history"; otherwise there is no reason and the
\* five conditions are evaluated.
C8_Original ==
    MomDone =>
        IF ValidCloses < RequiredCloses
        THEN ~momentum.pass_momentum /\ HasReason("insufficient_history")
        ELSE "reason" \notin DOMAIN momentum /\ HasAllConds

\* C8 amended: with fewer valid closes than required pass_momentum is false
\* and a reason is given: "no_price_data" when the history is None, has no
\* rows or has no Close column, "insufficient_history" otherwise; with enough
\* valid closes there is no reason and the five conditions are evaluated.
C8_ReasonByCase ==
    MomDone =>
        IF ValidCloses < RequiredCloses
        THEN /\ ~momentum.pass_momentum
             /\ ~HasAllConds
             /\ IF NoFrame THEN HasReason("no_price_data")
                ELSE HasReason("insufficient_history")
        ELSE "reason" \notin DOMAIN momentum /\ HasAllConds

C8_Witness ==
    /\ MomDone
    /\ ~NoFrame
    /\ Len(hist.rows) >= RequiredCloses
    /\ ValidCloses = RequiredCloses - 1
    /\ HasReason("insufficient_history")

\* the conditions whose underlying quantity was defined
DefinedConds ==
    IF ~Evaluated THEN {}
    ELSE (IF momentum.last_sma_fast # None /\ momentum.last_sma_slow # None
          THEN {"cond_ma_stack"} ELSE {})
         \cup (IF momentum.sma_fast_slope # None THEN {"cond_slope_up"} ELSE {})
         \cup (IF momentum.ret # None THEN {"cond_ret"} ELSE {})
         \cup (IF momentum.drawdown_from_peak # None THEN {"cond_drawdown"} ELSE {})
         \cup (IF momentum.dev_from_sma_fast # None THEN {"cond_dev"} ELSE {})

TrueConds == {mom_conditions[i] : i \in {j \in DOMAIN mom_conditions :
                                              Truthy(momentum, mom_conditions[j])}}

WMomentum == GetOr(weights, "momentum", R(35))

\* C9 as claimed: the momentum component is w_momentum * hits / total with
\* total the number of conditions whose quantity was defined, and 0 when
\* nothing was evaluated.
C9_Original ==
    (ScoreDone /\ MomDone) =>
        score.score_components.momentum =
            IF DefinedConds = {} THEN R(0)
            ELSE RDiv(RMul(WMomentum, R(Cardinality(TrueConds))),
                      R(Cardinality(DefinedConds)))

\* C9 amended: the momentum component is w_momentum * hits / 5 whenever the
\* history sufficed (a condition whose quantity was undefined is false and
\* still counted in the total), and 0 when nothing was evaluated.
C9_HitsOverFive ==
    (ScoreDone /\ MomDone) =>
        score.score_components.momentum =
            IF ~Evaluated THEN R(0)
            ELSE RDiv(RMul(WMomentum, R(Cardinality(TrueConds))), R(5))

C9_Witness ==
    /\ ScoreDone
    /\ Evaluated
    /\ momentum.ret = None
    /\ Cardinality(TrueConds) = 4
    /\ score.score_components.momentum = RDiv(RMul(WMomentum, R(4)), R(5))

\* the normalised signals that are available
ClaimedSignals ==
    LET gm == ValueIn(sec_metrics, "gross_margin")
        rw == IF "runway_months" \in DOMAIN hard THEN hard.runway_months ELSE None
    IN  (IF gm # None THEN <<RefClamp(RDiv(gm, Frac(3, 5)), R(0), R(1))>> ELSE <<>>)
        \o (IF rw # None THEN <<RefClamp(RDiv(rw, R(24)), R(0), R(1))>> ELSE <<>>)

WFundamentals == GetOr(weights, "fundamentals", R(25))

\* C10: the fundamentals component is w_fundamentals times the average of
\* the available signals among clamp(gross_margin / 0.60, 0, 1) and
\* clamp(runway_months / 24, 0, 1); with neither available it is
\* 0.25 * w_fundamentals when the data is insufficient and 0 when it is
\* sufficient.  For w_fundamentals >= 0 it lies between 0 and w_fundamentals.
C10_Fundamentals ==
    ScoreDone =>
        LET sig == ClaimedSignals
            fund == score.score_components.fundamentals
        IN  /\ Len(sig) = 2 => fund = RMul(WFundamentals, RDiv(RAdd(sig[1], sig[2]), R(2)))
            /\ Len(sig) = 1 => fund = RMul(WFundamentals, sig[1])
            /\ Len(sig) = 0 =>
                  fund = IF Truthy(hard, "data_sufficient_fundamentals") THEN R(0)
                         ELSE RDiv(WFundamentals, R(4))
            /\ RGe(WFundamentals, R(0)) => RLe(R(0), fund) /\ RLe(fund, WFundamentals)

C10_Witness ==
    /\ ScoreDone
    /\ ValueIn(sec_metrics, "gross_margin") = Frac(-1, 5)
    /\ "runway_months" \in DOMAIN hard
    /\ hard.runway_months = R(48)
    /\ RGt(WFundamentals, R(0))
    /\ score.score_components.fundamentals = RDiv(WFundamentals, R(2))

----------------------------------------------------------------------------
(* compute_price_summary                                                   *)

Summarised == summaries # <<>>

\* rows of the history with both close and volume non-null
ValidBars ==
    IF ohlcv.kind = "none" THEN <<>>
    ELSE SelectSeq(ohlcv.rows, LAMBDA b : b.close # None /\ b.volume # None)

\* mean of close * volume over the last k valid rows
RefDollarVol(k) ==
    LET n == Len(ValidBars)
        total == RSum([i \in 1..k |-> RMul(ValidBars[n - k + i].close,
                                            ValidBars[n - k + i].volume)])
    IN  RDiv(total, R(k))

InWindow == IF Len(ValidBars) < 20 THEN Len(ValidBars) ELSE 20

\* C11 as claimed: avg_dollar_vol_20d is the mean of close * volume over the
\* last 20 rows with both fields non-null, and None whenever fewer than 5
\* such rows exist.
C11_Original ==
    Summarised =>
        summaries[1].avg_dollar_vol_20d =
            IF InWindow < 5 THEN RawNone ELSE Num(RefDollarVol(InWindow))

\* C11 amended: avg_dollar_vol_20d is the mean of close * volume over the
\* last 20 rows with both fields non-null whenever at least one such row
\* exists (1 to 4 valid rows yield their mean), and None only when there is
\* no such row.
C11_MeanOfLastTwenty ==
    Summarised =>
        summaries[1].avg_dollar_vol_20d =
            IF InWindow = 0 THEN RawNone ELSE Num(RefDollarVol(InWindow))

C11_Witness ==
    /\ Summarised
    /\ Len(ValidBars) > 20
    /\ ValidBars[Len(ValidBars)] = Bar(R(2), R(3))
    /\ ValidBars[Len(ValidBars) - 20] = Bar(R(1), R(1))
    /\ summaries[1].avg_dollar_vol_20d = Num(RefDollarVol(20))

\* the first non-null of two values
FirstNonNull(a, b) == IF a.kind # "none" THEN a ELSE b

\* C12: market_cap and currency are each, independently, the fast quote's
\* value when that is non-null, else the full quote's value when that is
\* non-null, else None; a failed source counts as all-null.
C12_FallbackPerField ==
    Summarised =>
        LET fast_cap == FirstNonNull(QuoteGet(quote.fast, "market_cap", RawNone),
                                     QuoteGet(quote.fast, "marketCap", RawNone))
            cap == FirstNonNull(fast_cap, QuoteGet(quote.info, "marketCap", RawNone))
            cur == FirstNonNull(QuoteGet(quote.fast, "currency", CurNone),
                                QuoteGet(quote.info, "currency", CurNone))
            last == summaries[Len(summaries)]
        IN  /\ last.market_cap = (IF Present(cap) THEN cap ELSE RawNone)
            /\ last.currency = cur

----------------------------------------------------------------------------
(* momentum on a linear rise; the shape of the insufficient-data result    *)

\* the closes rise by the same positive step from a positive first close
IsLinearRise ==
    /\ hist.kind = "frame" /\ hist.has_close
    /\ Len(hist.rows) >= 2
    /\ \A i \in DOMAIN hist.rows : hist.rows[i] # None
    /\ RGt(hist.rows[1], R(0))
    /\ RGt(hist.rows[2], hist.rows[1])
    /\ \A i \in 2..Len(hist.rows) :
          RSub(hist.rows[i], hist.rows[i - 1]) = RSub(hist.rows[2], hist.rows[1])

ScenarioA ==
    /\ Len(hist.rows) = 70
    /\ hist.rows[1] = R(100)
    /\ hist.rows[70] = R(140)

\* C14: with the default configuration, any strictly linearly rising series
\* of at least 65 positive closes has cond_ma_stack, cond_slope_up and
\* cond_drawdown true with a drawdown of 0; 70 closes rising linearly from
\* 100 to 140 also have cond_ret true and pass_momentum true.
C14_LinearRise ==
    (MomDone /\ cfg = DefaultCfg /\ IsLinearRise /\ Len(hist.rows) >= 65) =>
        /\ Evaluated
        /\ momentum.cond_ma_stack
        /\ momentum.cond_slope_up
        /\ momentum.cond_drawdown
        /\ momentum.drawdown_from_peak = R(0)
        /\ ScenarioA => (momentum.cond_ret /\ momentum.cond_dev /\ momentum.pass_momentum)

C14_Witness ==
    /\ MomDone
    /\ cfg = DefaultCfg
    /\ IsLinearRise
    /\ ScenarioA
    /\ momentum.pass_momentum

NumericFields ==
    {"last_close", "last_sma_fast", "last_sma_slow", "sma_fast_slope", "ret",
     "drawdown_from_peak", "dev_from_sma_fast"}

CondFields == {mom_conditions[i] : i \in DOMAIN mom_conditions}

\* C15 as claimed: a result that could not be evaluated for lack of data still
\* carries the five condition flags, all false, pass_momentum = false and the
\* numeric fields, unset; a reason is given only in that case.
C15_Original ==
    MomDone =>
        /\ ("reason" \in DOMAIN momentum) <=> (ValidCloses < RequiredCloses)
        /\ ~Evaluated =>
              /\ ~momentum.pass_momentum
              /\ \A k \in CondFields : k \in DOMAIN momentum /\ momentum[k] = FALSE
              /\ \A k \in NumericFields : k \in DOMAIN momentum /\ momentum[k] = None

\* C15 amended: a result that could not be evaluated for lack of data holds
\* pass_momentum = false and a reason (and n_close when the reason is
\* "insufficient_history") and nothing else: no condition flag and no numeric
\* field; an evaluated result holds every condition flag and numeric field
\* and no reason.
C15_ShortResult ==
    MomDone =>
        /\ ("reason" \in DOMAIN momentum) <=> (ValidCloses < RequiredCloses)
        /\ ~Evaluated =>
              /\ ~momentum.pass_momentum
              /\ DOMAIN momentum \subseteq {"pass_momentum", "reason", "n_close"}
              /\ ("n_close" \in DOMAIN momentum) <=> HasReason("insufficient_history")
              /\ "n_close" \in DOMAIN momentum => momentum.n_close = ValidCloses
        /\ Evaluated => (CondFields \cup NumericFields) \subseteq DOMAIN momentum

C15_Witness ==
    /\ MomDone
    /\ hist.kind = "frame" /\ hist.rows # <<>> /\ ~hist.has_close
    /\ HasReason("no_price_data")
    /\ DOMAIN momentum = {"pass_momentum", "reason"}

----------------------------------------------------------------------------
(* refresh                                                                 *)

RunDone == DOMAIN run # {}

Listed(t) == listing[Upper(t)] \in {"filer", "no_filings"}

HasRow(file, t) == \E j \in DOMAIN file : file[j].ticker = Upper(t)

\* C16: in a run with resume, a ticker that has a row in the output file at
\* the start (compared without regard to case) is not looked up or scored
\* in that run and its row is in the file, unchanged, after the run; a run
\* that produces no new row leaves the file as it was.
C16_ResumeKeepsRows ==
    [][RunDone' =>
          /\ args.resume =>
                \A i \in DOMAIN out_file :
                    /\ Upper(out_file[i].ticker) \notin run'.fetched
                    /\ \E j \in DOMAIN out_file' : out_file'[j] = out_file[i]
          /\ Len(run'.rows) = 0 => out_file' = out_file]_vars

C16_Witness ==
    /\ RunDone
    /\ run.resume
    /\ run.wrote
    /\ "AAA" \in run.processed
    /\ \E i \in DOMAIN ipos : ipos[i].ticker = "aaa"
    /\ Len(out_file) > Len(run.existing)

BatchSet == {run.batch[i] : i \in DOMAIN run.batch}
RemainingSet == {run.remaining[i] : i \in DOMAIN run.remaining}

C19_SecBestEffort ==
    RunDone =>
        /\ ~run.aborted
        /\ \A i \in DOMAIN run.batch :
              Listed(run.batch[i].ticker) =>
                  \E j \in DOMAIN out_file :
                      /\ out_file[j].ticker = Upper(run.batch[i].ticker)
                      /\ (run.cik_map # "ok" \/ listing[Upper(run.batch[i].ticker)] = "no_filings")
                            => ~out_file[j].has_metrics

AllWritten == \A i \in DOMAIN ipos : Listed(ipos[i].ticker) => HasRow(out_file, ipos[i].ticker)

\* C20: for a fixed table and batch_size >= 1, refresh with resume run again
\* and again eventually writes a row for every ticker of the table that is
\* equity-like and has a price history.
C20_EventuallyAllWritten == <>AllWritten

----------------------------------------------------------------------------
(* _RateLimiter                                                            *)

\* C18: any two successive requests issued through _sec_get_json start at
\* least min_interval apart, also when it is called from several threads.
C18_MinInterval ==
    \A i \in 1..(Len(starts) - 1) : starts[i + 1] - starts[i] >= min_interval

----------------------------------------------------------------------------
(* load_ticker_cik_map                                                     *)

\* C21: a failed first download of the map (bad status or unparsable body)
\* is not kept: a call of ticker_to_cik made while the endpoint answers
\* properly returns the CIK of a ticker the SEC lists, whatever happened on
\* earlier calls in the process.
C21_MapRecovers ==
    \A i \in DOMAIN lookups :
        (lookups[i].endpoint = "ok" /\ Upper(lookups[i].ticker) \in DOMAIN BuildMap(TickersJson))
            => lookups[i].result = Found(BuildMap(TickersJson)[Upper(lookups[i].ticker)])

====
